---- MODULE Spec2Model ----
(***************************************************************************)
(* Response cache and request-coalescing layer of the library service.     *)
(*                                                                         *)
(*   api.py            _coalesced_generate_ai_summary, inflight_ai_tasks,  *)
(*                     inflight_ai_lock, invalidate_cache                  *)
(*   cache_manager.py  CacheManager (get, set, delete, invalidate_pattern, *)
(*                     clear, get_stats, _init_redis, _make_key,           *)
(*                     _serialize_value, _deserialize_value)               *)
(*                                                                         *)
(* Two state machines share the module: SpecCoalesce (the asyncio          *)
(* single-flight coalescer) and SpecCache (the two-tier cache store).      *)
(***************************************************************************)
EXTENDS Integers, Sequences, FiniteSets, TLC

\* ------------------------------------------------------------------------
\* Bounds of the coalescer model
\* ------------------------------------------------------------------------
\* callers of _coalesced_generate_ai_summary (each invokes it once; they are
\* numbered in their order of arrival)
NCallers == 3

\* tasks asyncio.create_task may create in one run
MaxTasks == 3

\* external cancellations of callers in one run
MaxCancels == 1

\* ------------------------------------------------------------------------
\* Bounds of the cache model
\* ------------------------------------------------------------------------
\* cache operations (get, set, delete, ...) in one run
MaxOps == 3

\* the clock runs from 0 to MaxTime
MaxTime == 1

\* ttl_seconds of the entries written by a bulk load of the local tier
FillerTTL == 50

\* ------------------------------------------------------------------------
\* Bounds of the threaded model
\* ------------------------------------------------------------------------
\* threads that call get() at the same time, one call each (they are numbered
\* in the order in which they start)
NThreads == 3

\* ------------------------------------------------------------------------
\* Bounds of the fingerprint model
\* ------------------------------------------------------------------------
\* items of a dict of a payload, at either nesting level
MaxItems == 2

\* ------------------------------------------------------------------------
\* Bounds of the enhanced-book model
\* ------------------------------------------------------------------------
\* threads serving GET /books/{isbn}/enhanced
NReaders == 2

\* PUT /books/{isbn} requests served
MaxUpdates == 2

\* ------------------------------------------------------------------------
\* Program constants
\* ------------------------------------------------------------------------
\* `if len(self.memory_cache) > 1000` (cache_manager.py:143)
MemoryCacheLimit == 1000

\* `sorted_items[:100]` (cache_manager.py:149)
EvictCount == 100

Callers == 1..NCallers

Isbns == {"isbn1", "isbn2"}

NoTask == 0

NoCaller == 0

VARIABLES
    \* --- coalescer (api.py) ---
    pc,                 \* position of each caller inside the coroutine
    isbn,               \* the isbn argument of each caller
    task,               \* the local variable `task` of each caller
    created,            \* history: the caller ran asyncio.create_task itself
    result,             \* what the call returned or raised
    cancel_requested,   \* Task.cancel() was called on the caller
    settled_at_call,    \* history: tasks already done when the caller invoked
    inflight_ai_tasks,  \* the registry: isbn -> task
    lock_owner,         \* inflight_ai_lock: the caller holding it
    lock_waiters,       \* inflight_ai_lock: FIFO queue of acquirers
    tasks,              \* every asyncio.Task created, by creation order
    ncancel,            \* history: number of cancellations so far
    shutdown_pc,        \* position of the lifespan's shutdown part
    shutdown_tasks,     \* its local `tasks`: the tasks it took off the registry
    \* --- cache store (cache_manager.py) ---
    redis_client,       \* self.redis_client: "none" or "client"
    memory_cache,       \* self.memory_cache, in dict (insertion) order
    cache_stats,        \* self.cache_stats
    redis_store,        \* the remote store's content, by remote key
    now,                \* datetime.now(), in seconds
    last,               \* history: the last operation and what it returned
    written,            \* history: per key, the last set() not yet undone
    set_log,            \* history: per key and value, the latest expiry a
                        \* set() of that value under that key was given, 0
                        \* when there is none or every one has expired
    nops,               \* history: number of operations so far
    \* --- get() on several threads (cache_manager.py) ---
    tpc,                \* position of each thread inside get()
    tlocal,             \* each thread's key, the tier that serves it and the
                        \* counter value it has loaded for a `+= 1`
    memory_cache_lock,  \* self.memory_cache_lock: the thread holding it
    setter,             \* a thread inside set(): position and arguments
    \* --- fingerprints and conditional requests (api.py) ---
    payload,            \* two payloads: [a |-> dict, b |-> dict]
    etag,               \* what _compute_etag_from_dict returned for each
    request,            \* the If-None-Match header of the last request
    response,           \* the status of the answer to it
    \* --- get_enhanced_book and update_book on threads (api.py) ---
    book,               \* the Book object Library holds for the isbn
    enhanced_cache,     \* the cache entry enhanced:<isbn>, or no entry
    reader,             \* each get_enhanced_book thread: position, locals
    updater             \* the update_book thread: position, locals, count

shutdown_vars == <<shutdown_pc, shutdown_tasks>>

coalesce_vars == <<pc, isbn, task, created, result, cancel_requested,
                   settled_at_call, inflight_ai_tasks, lock_owner,
                   lock_waiters, tasks, ncancel, shutdown_vars>>

cache_vars == <<redis_client, memory_cache, cache_stats, redis_store,
                now, last, written, set_log, nops>>

thread_vars == <<tpc, tlocal, memory_cache_lock, setter>>

enhanced_vars == <<book, enhanced_cache, reader, updater>>

etag_vars == <<payload, etag, request, response, enhanced_vars>>

vars == <<coalesce_vars, cache_vars, thread_vars, etag_vars>>

\* ------------------------------------------------------------------------
\* asyncio.Task
\* ------------------------------------------------------------------------
TaskIds == 1..Len(tasks)

\* task.done()
TaskDone(t) == tasks[t].state # "pending"

\* the outcome `await task` delivers for a finished task: its result, its
\* exception, or CancelledError; each run of the factory yields its own value
TaskOutcome(t) == <<tasks[t].state, t>>

Cancelled == <<"cancelled", 0>>

\* how many times coro_factory() was invoked for isbn k
FactoryCalls(k) == Cardinality({t \in TaskIds : tasks[t].isbn = k})

\* ------------------------------------------------------------------------
\* _coalesced_generate_ai_summary
\* ------------------------------------------------------------------------
\* `task and not task.done()` (api.py:233), mutated: the done() test dropped
JoinableIgnoringDone(k) == inflight_ai_tasks[k] # NoTask

\* `task and not task.done()` (api.py:233), mutated: the done() test inverted
JoinableInverted(k) ==
    /\ inflight_ai_tasks[k] # NoTask
    /\ TaskDone(inflight_ai_tasks[k])

\* `task and not task.done()` (api.py:233)
Joinable(k) ==
    /\ inflight_ai_tasks[k] # NoTask
    /\ ~TaskDone(inflight_ai_tasks[k])

\* `inflight_ai_tasks.get(isbn) is task` (api.py:243), mutated: any entry
SameTaskOrNewer(c) == inflight_ai_tasks[isbn[c]] # NoTask

\* `inflight_ai_tasks.get(isbn) is task` (api.py:243)
SameTask(c) == inflight_ai_tasks[isbn[c]] = task[c]

\* The body of the first `async with inflight_ai_lock` (api.py:232-237), run
\* by caller c for isbn k once it owns the lock; `rest` is the lock queue
\* without c. A joiner suspends in `return await task` still owning the lock;
\* an initiator registers its new task and leaves the block.
CheckAndRegister(c, k, rest) ==
    IF Joinable(k)
    THEN /\ task' = [task EXCEPT ![c] = inflight_ai_tasks[k]]
         /\ pc' = [pc EXCEPT ![c] = "await_in_lock"]
         /\ lock_owner' = c
         /\ lock_waiters' = rest
         /\ UNCHANGED <<tasks, inflight_ai_tasks, created>>
    ELSE /\ Len(tasks) < MaxTasks
         /\ tasks' = Append(tasks, [isbn |-> k, state |-> "pending",
                                    must_cancel |-> FALSE])
         /\ inflight_ai_tasks' = [inflight_ai_tasks EXCEPT ![k] = Len(tasks) + 1]
         /\ task' = [task EXCEPT ![c] = Len(tasks) + 1]
         /\ created' = [created EXCEPT ![c] = TRUE]
         /\ pc' = [pc EXCEPT ![c] = "await_task"]
         /\ lock_owner' = NoCaller
         /\ lock_waiters' = rest

\* The body of the `finally` block (api.py:241-244) once c owns the lock.
Deregister(c, rest) ==
    /\ inflight_ai_tasks' =
          IF SameTask(c)
          THEN [inflight_ai_tasks EXCEPT ![isbn[c]] = NoTask]
          ELSE inflight_ai_tasks
    /\ pc' = [pc EXCEPT ![c] = "done"]
    /\ lock_owner' = NoCaller
    /\ lock_waiters' = rest

\* asyncio.Lock.acquire() returns at once only when the lock is free and no
\* one is queued for it; otherwise the acquirer queues (FIFO).
LockFree == lock_owner = NoCaller /\ lock_waiters = <<>>

\* A caller enters _coalesced_generate_ai_summary(k, coro_factory).
Invoke(c, k) ==
    /\ pc[c] = "idle"
    /\ \A d \in 1..(c - 1) : pc[d] # "idle"
    /\ isbn' = [isbn EXCEPT ![c] = k]
    /\ settled_at_call' = [settled_at_call EXCEPT
                              ![c] = {t \in TaskIds : TaskDone(t)}]
    /\ IF LockFree
       THEN CheckAndRegister(c, k, lock_waiters)
       ELSE /\ pc' = [pc EXCEPT ![c] = "acquire_first"]
            /\ lock_waiters' = Append(lock_waiters, c)
            /\ UNCHANGED <<task, created, inflight_ai_tasks, lock_owner, tasks>>
    /\ UNCHANGED <<result, cancel_requested, ncancel>>
    /\ UNCHANGED <<shutdown_vars, cache_vars, thread_vars, etag_vars>>

\* The lock is released and the first queued acquirer proceeds.
LockGranted(c) ==
    /\ lock_owner = NoCaller
    /\ lock_waiters # <<>>
    /\ Head(lock_waiters) = c
    /\ \/ /\ pc[c] = "acquire_first"
          /\ CheckAndRegister(c, isbn[c], Tail(lock_waiters))
       \/ /\ pc[c] = "acquire_finally"
          /\ Deregister(c, Tail(lock_waiters))
          /\ UNCHANGED <<task, created, tasks>>
    /\ UNCHANGED <<isbn, result, cancel_requested, settled_at_call, ncancel>>
    /\ UNCHANGED <<shutdown_vars, cache_vars, thread_vars, etag_vars>>

\* The computation finishes: with a result, with an exception, or, when
\* cancellation was requested on it, with CancelledError.
TaskSettle(t, how) ==
    /\ t \in TaskIds
    /\ ~TaskDone(t)
    /\ tasks' = [tasks EXCEPT ![t].state =
                    IF tasks[t].must_cancel THEN "cancelled" ELSE how]
    /\ UNCHANGED <<pc, isbn, task, created, result, cancel_requested,
                   settled_at_call, inflight_ai_tasks, lock_owner,
                   lock_waiters, ncancel>>
    /\ UNCHANGED <<shutdown_vars, cache_vars, thread_vars, etag_vars>>

\* `await task` returns or raises in caller c (api.py:234 and 239). The joiner
\* leaves the `async with` block and so releases the lock; the initiator goes
\* on to its `finally` block and acquires the lock again.
Resume(c) ==
    /\ pc[c] \in {"await_in_lock", "await_task"}
    /\ TaskDone(task[c])
    /\ result' = [result EXCEPT ![c] =
                     IF cancel_requested[c] \/ tasks[task[c]].state = "cancelled"
                     THEN Cancelled ELSE TaskOutcome(task[c])]
    /\ IF pc[c] = "await_in_lock"
       THEN /\ pc' = [pc EXCEPT ![c] = "done"]
            /\ lock_owner' = NoCaller
            /\ UNCHANGED <<lock_waiters, inflight_ai_tasks>>
       ELSE IF LockFree
            THEN Deregister(c, lock_waiters)
            ELSE /\ pc' = [pc EXCEPT ![c] = "acquire_finally"]
                 /\ lock_waiters' = Append(lock_waiters, c)
                 /\ UNCHANGED <<lock_owner, inflight_ai_tasks>>
    /\ UNCHANGED <<isbn, task, created, cancel_requested, settled_at_call,
                   tasks, ncancel>>
    /\ UNCHANGED <<shutdown_vars, cache_vars, thread_vars, etag_vars>>

RemoveWaiter(q, c) == SelectSeq(q, LAMBDA x : x # c)

\* The request running caller c is cancelled (Task.cancel()). A caller queued
\* on the lock leaves the queue with CancelledError; a caller suspended in
\* `await task` passes the cancellation on to the task it awaits, which is
\* not shielded, and is woken when that task has finished.
Cancel(c) ==
    /\ ncancel < MaxCancels
    /\ ~cancel_requested[c]
    /\ pc[c] \in {"acquire_first", "acquire_finally", "await_in_lock", "await_task"}
    /\ ncancel' = ncancel + 1
    /\ cancel_requested' = [cancel_requested EXCEPT ![c] = TRUE]
    /\ IF pc[c] \in {"acquire_first", "acquire_finally"}
       THEN /\ lock_waiters' = RemoveWaiter(lock_waiters, c)
            /\ pc' = [pc EXCEPT ![c] = "done"]
            /\ result' = [result EXCEPT ![c] = Cancelled]
            /\ UNCHANGED tasks
       ELSE /\ tasks' = IF TaskDone(task[c]) THEN tasks
                        ELSE [tasks EXCEPT ![task[c]].must_cancel = TRUE]
            /\ UNCHANGED <<lock_waiters, pc, result>>
    /\ UNCHANGED <<isbn, task, created, settled_at_call, inflight_ai_tasks,
                   lock_owner>>
    /\ UNCHANGED <<shutdown_vars, cache_vars, thread_vars, etag_vars>>

\* ------------------------------------------------------------------------
\* lifespan: the shutdown part
\* ------------------------------------------------------------------------
\* the lifespan's place in the queue of inflight_ai_lock
Lifespan == NCallers + 1

\* The shutdown part once it owns the lock (api.py:47-50): it copies the
\* registry's tasks, clears the registry, leaves the block and cancels each
\* task; none of these suspends. gather() is awaited when there are tasks.
ClearAndCancel(rest) ==
    LET taken == {inflight_ai_tasks[k] : k \in Isbns} \ {NoTask} IN
    /\ shutdown_tasks' = taken
    /\ inflight_ai_tasks' = [k \in Isbns |-> NoTask]
    /\ tasks' = [t \in TaskIds |->
                    IF t \in taken /\ ~TaskDone(t)
                    THEN [tasks[t] EXCEPT !.must_cancel = TRUE]
                    ELSE tasks[t]]
    /\ shutdown_pc' = IF taken = {} THEN "done" ELSE "gather"
    /\ lock_owner' = NoCaller
    /\ lock_waiters' = rest

\* The application stops: the lifespan reaches `async with inflight_ai_lock`
\* (api.py:46).
Shutdown ==
    /\ shutdown_pc = "idle"
    /\ IF LockFree
       THEN ClearAndCancel(lock_waiters)
       ELSE /\ shutdown_pc' = "acquire"
            /\ lock_waiters' = Append(lock_waiters, Lifespan)
            /\ UNCHANGED <<shutdown_tasks, inflight_ai_tasks, tasks, lock_owner>>
    /\ UNCHANGED <<pc, isbn, task, created, result, cancel_requested,
                   settled_at_call, ncancel>>
    /\ UNCHANGED <<cache_vars, thread_vars, etag_vars>>

\* The lock is released and the lifespan is the first queued acquirer.
ShutdownGranted ==
    /\ shutdown_pc = "acquire"
    /\ lock_owner = NoCaller
    /\ lock_waiters # <<>>
    /\ Head(lock_waiters) = Lifespan
    /\ ClearAndCancel(Tail(lock_waiters))
    /\ UNCHANGED <<pc, isbn, task, created, result, cancel_requested,
                   settled_at_call, ncancel>>
    /\ UNCHANGED <<cache_vars, thread_vars, etag_vars>>

\* `await asyncio.gather(*tasks, return_exceptions=True)` returns
\* (api.py:52): every task taken off the registry has finished.
ShutdownGathered ==
    /\ shutdown_pc = "gather"
    /\ \A t \in shutdown_tasks : TaskDone(t)
    /\ shutdown_pc' = "done"
    /\ UNCHANGED <<pc, isbn, task, created, result, cancel_requested,
                   settled_at_call, inflight_ai_tasks, lock_owner,
                   lock_waiters, tasks, ncancel, shutdown_tasks>>
    /\ UNCHANGED <<cache_vars, thread_vars, etag_vars>>

\* ------------------------------------------------------------------------
\* Cache keys, patterns and values
\* ------------------------------------------------------------------------
\* A string is the sequence of its tokens: "books:1" is <<"books:", "1">>.
Keys == {<<"books:", "1">>, <<"other:", "1">>}

\* arguments of invalidate_pattern: a bare prefix and the `prefix*` form
Patterns == {<<"books:">>, <<"books:", "*">>}

\* arguments of invalidate_cache
Prefixes == {<<"books:">>}

TTLs == {1, 2}

\* keys of a bulk load of the local tier
FillerKey(i) == <<"fill:", ToString(i)>>

\* A Python value: its type and its content.
Value(kind, id) == [kind |-> kind, id |-> id]

\* Python's None
None == Value("None", "None")

PyTrue == Value("bool", "True")

PyFalse == Value("bool", "False")

PyBool(b) == IF b THEN PyTrue ELSE PyFalse

\* values handed to set(): a JSON object and a tuple
InputValues == {Value("dict", "a"), Value("tuple", "a")}

\* the values among them that json.loads gives back as they were stored
JsonValues == {Value("dict", "a")}

\* values for which json.dumps raises TypeError: a dict with tuple keys
\* (pickle takes it) and a dict with tuple keys holding a lambda (pickle
\* does not take it either)
HardValues == {Value("tuple_keyed", "a"), Value("unpicklable", "a")}

FillerValue == Value("dict", "filler")

\* str.startswith
StartsWith(str, prefix) ==
    /\ Len(prefix) <= Len(str)
    /\ SubSeq(str, 1, Len(prefix)) = prefix

\* `pattern.replace('*', '')` (cache_manager.py:189)
RemoveStars(pattern) == SelectSeq(pattern, LAMBDA ch : ch # "*")

\* _make_key
MakeKey(key) == <<"library_cache:">> \o key

\* the keys the cached() wrapper of a function f uses (cache_manager.py:
\* 240-245): key_prefix is empty or "p", args_hash stands for the md5 digest
\* of the arguments
WrapperPrefixes == {<<>>, <<"p">>}

ArgHashes == {"h1", "h2"}

\* `f"{key_prefix}:{func.__name__}" if key_prefix else func.__name__`
FuncName(key_prefix) ==
    IF key_prefix # <<>> THEN key_prefix \o <<":", "f">> ELSE <<"f">>

\* `f"{func_name}:{args_hash}"`
CacheKey(key_prefix, args_hash) == FuncName(key_prefix) \o <<":", args_hash>>

\* `f"{key_prefix}:{func.__name__}:*"` (cache_manager.py:258)
ClearPattern(key_prefix) == key_prefix \o <<":", "f", ":", "*">>

WrapperKeys == {CacheKey(p, h) : p \in WrapperPrefixes, h \in ArgHashes}

\* every key the model stores under
StoreKeys == Keys \cup WrapperKeys

RemoteKeys == {MakeKey(k) : k \in StoreKeys}

\* glob matching of the remote store's KEYS command: `*` matches any run
RECURSIVE GlobMatch(_, _)
GlobMatch(pattern, str) ==
    IF pattern = <<>> THEN str = <<>>
    ELSE IF Head(pattern) = "*"
         THEN \/ GlobMatch(Tail(pattern), str)
              \/ str # <<>> /\ GlobMatch(pattern, Tail(str))
         ELSE /\ str # <<>>
              /\ Head(str) = Head(pattern)
              /\ GlobMatch(Tail(pattern), Tail(str))

\* ------------------------------------------------------------------------
\* Exceptions
\* ------------------------------------------------------------------------
\* what a call to the remote store raises while the store is unreachable;
\* every handler catches it as `except Exception`, whatever its class
RemoteFaults == {"ConnectionError"}

\* what decoding raises on bytes that are neither JSON nor a pickle
DecodeFaults == {"UnpicklingError"}

\* `except Exception`, mutated: only the redis client's own errors are caught
CaughtRedisErrorsOnly(exc) == exc \in RemoteFaults

\* `except Exception` (cache_manager.py:61, 104, 134, 162, 182, 210): every
\* exception of the model derives from Exception
Caught(exc) == exc \in RemoteFaults \cup DecodeFaults \cup {"TypeError"}

\* the exception that leaves a try block in which `exc` was raised
Escaping(exc) == IF exc = "none" \/ Caught(exc) THEN "none" ELSE exc

\* ------------------------------------------------------------------------
\* _serialize_value / _deserialize_value
\* ------------------------------------------------------------------------
\* json.dumps(value, default=str): the document is written as the value that
\* json.loads reads back from it. A tuple is written as an array, an object
\* json cannot encode as the string str() gives, and a dict whose keys are
\* not scalars raises TypeError.
JsonDumps(value) ==
    CASE value.kind \in {"dict", "list", "str"} -> [exc |-> "none", text |-> value]
      [] value.kind = "tuple" -> [exc |-> "none", text |-> Value("list", value.id)]
      [] value.kind = "model" -> [exc |-> "none", text |-> Value("str", value.id)]
      [] OTHER -> [exc |-> "TypeError", text |-> None]

\* pickle.dumps(value)
PickleDumps(value) ==
    IF value.kind = "unpicklable"
    THEN [exc |-> "PicklingError", bytes |-> None]
    ELSE [exc |-> "none", bytes |-> value]

\* bytes that are neither `j:`/`p:` data nor legacy JSON or pickle data
Undecodable == [tag |-> "x", body |-> Value("bytes", "x")]

\* _serialize_value, mutated: no fallback to pickle
SerializeJsonOnly(value) ==
    [exc |-> JsonDumps(value).exc,
     data |-> [tag |-> "j", body |-> JsonDumps(value).text]]

\* _serialize_value: JSON first, pickle when json.dumps raises TypeError or
\* ValueError; what pickle.dumps raises leaves the function
SerializeValue(value) ==
    LET j == JsonDumps(value)
        pk == PickleDumps(value)
    IN
    IF j.exc = "none"
    THEN [exc |-> "none", data |-> [tag |-> "j", body |-> j.text]]
    ELSE [exc |-> pk.exc, data |-> [tag |-> "p", body |-> pk.bytes]]

DeserializeValue(data) ==
    IF data.tag \in {"j", "p"}
    THEN [exc |-> "none", value |-> data.body]
    ELSE [exc |-> "UnpicklingError", value |-> None]

\* ------------------------------------------------------------------------
\* The remote store (redis), as the client sees it
\* ------------------------------------------------------------------------
Absent == [present |-> FALSE, data |-> Undecodable, expires_at |-> 0]

Stored(data, expires_at) ==
    [present |-> TRUE, data |-> data, expires_at |-> expires_at]

\* the keys GET and KEYS see: present and not past their SETEX ttl
RedisLive(rk) == redis_store[rk].present /\ now < redis_store[rk].expires_at

\* what a remote call can do: answer ("none") or raise
RemoteOutcomes == {"none"} \cup RemoteFaults

\* ------------------------------------------------------------------------
\* self.memory_cache
\* ------------------------------------------------------------------------
\* An item of the dict. A bulk load is kept as one run: `run` consecutive
\* items with the keys fill:<first> .. fill:<first + run - 1>, all with the
\* same value and expiry; `key` is the key of the first of them. Any other
\* item is a run of one.
Entry(key, value, expires_at) ==
    [key |-> key, value |-> value, expires_at |-> expires_at, first |-> 0,
     run |-> 1]

FillerRun(first, run, expires_at) ==
    [key |-> FillerKey(first), value |-> FillerValue, expires_at |-> expires_at,
     first |-> first, run |-> run]

RECURSIVE Items(_)
\* len(): the number of items
Items(m) == IF m = <<>> THEN 0 ELSE Head(m).run + Items(Tail(m))

\* position of key in the dict, 0 when absent (a key of Keys is never in a
\* bulk-loaded run)
IndexOf(m, key) ==
    IF \E i \in 1..Len(m) : m[i].key = key
    THEN CHOOSE i \in 1..Len(m) : m[i].key = key
    ELSE 0

\* dict.pop(key, None) / del dict[key]
MemoryPop(m, key) == SelectSeq(m, LAMBDA e : e.key # key)

\* `self.memory_cache[key] = (value, expires_at)`: an existing key keeps its
\* place in the dict, a new key goes last
MemoryStore(m, key, value, expires_at) ==
    IF IndexOf(m, key) # 0
    THEN [m EXCEPT ![IndexOf(m, key)] = Entry(key, value, expires_at)]
    ELSE Append(m, Entry(key, value, expires_at))

\* the items of m whose key starts with prefix (a prefix of at most one token
\* matches all the keys of a run or none)
Matching(m, prefix) == SelectSeq(m, LAMBDA e : StartsWith(e.key, prefix))

RECURSIVE InsertByExpiry(_, _)
\* e placed behind every item that does not expire later than e
InsertByExpiry(e, sorted) ==
    IF sorted = <<>> THEN <<e>>
    ELSE IF e.expires_at < Head(sorted).expires_at THEN <<e>> \o sorted
    ELSE <<Head(sorted)>> \o InsertByExpiry(e, Tail(sorted))

RECURSIVE SortedByExpiry(_)
\* `sorted(self.memory_cache.items(), key=lambda x: x[1][1])`: ascending
\* expiry, items of equal expiry in dict order (sorted() is stable)
SortedByExpiry(m) ==
    IF m = <<>> THEN <<>>
    ELSE InsertByExpiry(m[Len(m)], SortedByExpiry(SubSeq(m, 1, Len(m) - 1)))

Min(a, b) == IF a < b THEN a ELSE b

Max(a, b) == IF a < b THEN b ELSE a

\* how many items of sorted_items[j] are among sorted_items[:n]
TakenFrom(sorted_items, j, n) ==
    Max(0, Min(sorted_items[j].run, n - Items(SubSeq(sorted_items, 1, j - 1))))

\* item e without its first `taken` keys
DropFirst(e, taken) ==
    IF e.first = 0 THEN e
    ELSE FillerRun(e.first + taken, e.run - taken, e.expires_at)

\* cache_manager.py:145-148, mutated: the items are left in dict order
Unsorted(m) == m

\* cache_manager.py:145-148: the dict's items, oldest expiry first
Oldest(m) == SortedByExpiry(m)

\* cache_manager.py:143-150, mutated: the size check is dropped
NeverEvict(m) == m

\* cache_manager.py:143-150: above the limit, the first 100 items of the
\* dict sorted by expiry are popped
Evict(m) ==
    IF Items(m) > MemoryCacheLimit
    THEN LET sorted_items == Oldest(m)
             Taken(e) ==
                 IF \E j \in 1..Len(sorted_items) : sorted_items[j] = e
                 THEN TakenFrom(sorted_items,
                                CHOOSE j \in 1..Len(sorted_items) : sorted_items[j] = e,
                                EvictCount)
                 ELSE 0
             kept == SelectSeq(m, LAMBDA e : Taken(e) < e.run)
         IN  [i \in 1..Len(kept) |-> DropFirst(kept[i], Taken(kept[i]))]
    ELSE m

\* ------------------------------------------------------------------------
\* CacheManager
\* ------------------------------------------------------------------------
\* history record of an operation: its name and argument, the value and the
\* count it returned, the exception it raised, the outcome of its remote
\* call ("unused", "ok", "failed", or "undecodable" for a read of bytes that
\* cannot be decoded), the tier that served a get or the tiers that held the
\* key when delete was called, the time, the number of distinct keys an
\* invalidation removed from a tier
OpRecord(op, key, ret, count, raised, remote, source, removed) ==
    [op |-> op, key |-> key, ret |-> ret, count |-> count, raised |-> raised,
     remote |-> remote, source |-> source, time |-> now, removed |-> removed,
     arg |-> None]

\* history record of a set(): `arg` is the value it was given
SetRecord(key, value, ret, raised, remote) ==
    [OpRecord("set", key, ret, 0, raised, remote, "none", 0) EXCEPT
        !.arg = value]

\* `deleted` is the outcome of the remote call of the last delete() of the
\* key that no set() of the key has followed, "no" when there is none
NoWrite ==
    [set |-> FALSE, value |-> None, expires_at |-> 0, remote |-> "unused",
     deleted |-> "no"]

\* the history of a key that an invalidation or a clear has covered
Unwritten(w) == [NoWrite EXCEPT !.deleted = w.deleted]

\* _init_redis: without the redis package, or when from_url/ping raises,
\* the manager is left without a client
InitRedis(available, ping_exc) ==
    [client |-> IF available /\ ping_exc = "none" THEN "client" ELSE "none",
     remote |-> IF ~available THEN "unused"
                ELSE IF ping_exc = "none" THEN "ok" ELSE "failed",
     raised |-> IF available THEN Escaping(ping_exc) ELSE "none"]

\* The outcome of the remote call of an operation whose request to the
\* store raises remote_exc ("none": the store answers): "unused" without a
\* client, else "ok" or "failed".
RemoteCall(remote_exc) ==
    IF redis_client # "client" THEN "unused"
    ELSE IF remote_exc = "none" THEN "ok" ELSE "failed"

\* the exception raised inside the try block around that remote call
RemoteFailure(remote_exc) ==
    IF redis_client # "client" THEN "none" ELSE remote_exc

\* get, lines 97-105: the remote read. `counted` says that the hit counters
\* were incremented (they are before the bytes are decoded).
GetRemote(key, remote_exc) ==
    LET rk == MakeKey(key) IN
    IF RemoteCall(remote_exc) # "ok"
    THEN [hit |-> FALSE, counted |-> FALSE, value |-> None,
          remote |-> RemoteCall(remote_exc), exc |-> RemoteFailure(remote_exc)]
    ELSE IF ~RedisLive(rk)
    THEN [hit |-> FALSE, counted |-> FALSE, value |-> None, remote |-> "ok",
          exc |-> "none"]
    ELSE LET d == DeserializeValue(redis_store[rk].data) IN
         IF d.exc = "none"
         THEN [hit |-> TRUE, counted |-> TRUE, value |-> d.value,
               remote |-> "ok", exc |-> "none"]
         ELSE [hit |-> FALSE, counted |-> TRUE, value |-> None,
               remote |-> "undecodable", exc |-> d.exc]

\* get, line 118, mutated: the expired entry is skipped, not deleted
KeepExpired(m, key) == m

\* get, line 118: `del self.memory_cache[key]`
PurgeExpired(m, key) == MemoryPop(m, key)

\* get, lines 101-102, mutated: only the remote counter is incremented
CountRedisOnly(stats) == [stats EXCEPT !.redis_hits = @ + 1]

\* get, lines 101-102: `hits` and `redis_hits` are incremented together
CountRedisHit(stats) == [stats EXCEPT !.hits = @ + 1, !.redis_hits = @ + 1]

\* CacheManager.get
Get(key, remote_exc) ==
    LET r == GetRemote(key, remote_exc)
        exc == Escaping(r.exc)
        stats1 == IF r.counted THEN CountRedisHit(cache_stats) ELSE cache_stats
        i == IndexOf(memory_cache, key)
        fresh == i # 0 /\ now < memory_cache[i].expires_at
    IN
    /\ redis_client = "client" \/ remote_exc = "none"
    /\ nops < MaxOps
    /\ nops' = nops + 1
    /\ IF r.hit
       THEN /\ cache_stats' = stats1
            /\ last' = OpRecord("get", key, r.value, 0, "none", r.remote, "redis", 0)
            /\ UNCHANGED memory_cache
       ELSE IF exc # "none"
       THEN /\ cache_stats' = stats1
            /\ last' = OpRecord("get", key, None, 0, exc, r.remote, "none", 0)
            /\ UNCHANGED memory_cache
       ELSE IF fresh
       THEN /\ cache_stats' = [stats1 EXCEPT !.hits = @ + 1, !.memory_hits = @ + 1]
            /\ last' = OpRecord("get", key, memory_cache[i].value, 0, "none",
                                r.remote, "memory", 0)
            /\ UNCHANGED memory_cache
       ELSE /\ cache_stats' = [stats1 EXCEPT !.misses = @ + 1]
            /\ memory_cache' = IF i # 0 THEN PurgeExpired(memory_cache, key)
                               ELSE memory_cache
            /\ last' = OpRecord("get", key, None, 0, "none", r.remote, "miss", 0)
    /\ UNCHANGED <<redis_client, redis_store, now, written, set_log>>
    /\ UNCHANGED <<coalesce_vars, thread_vars, etag_vars>>

\* CacheManager.set
Set(key, value, ttl_seconds, remote_exc) ==
    LET ser == SerializeValue(value)
        remote == RemoteCall(remote_exc)
        exc == IF ser.exc # "none" THEN ser.exc
               ELSE Escaping(RemoteFailure(remote_exc))
        expires_at == now + ttl_seconds
    IN
    /\ redis_client = "client" \/ remote_exc = "none"
    /\ nops < MaxOps
    /\ nops' = nops + 1
    /\ IF exc # "none"
       THEN /\ last' = SetRecord(key, value, None, exc,
                                 IF ser.exc # "none" THEN "unused" ELSE remote)
            /\ UNCHANGED <<redis_store, memory_cache, written, set_log>>
       ELSE /\ set_log' = [set_log EXCEPT ![key][value] = Max(@, expires_at)]
            /\ redis_store' =
                  IF remote = "ok"
                  THEN [redis_store EXCEPT
                           ![MakeKey(key)] = Stored(ser.data, expires_at)]
                  ELSE redis_store
            /\ memory_cache' =
                  Evict(MemoryStore(memory_cache, key, value, expires_at))
            /\ written' = [written EXCEPT ![key] =
                              [set |-> TRUE, value |-> value,
                               expires_at |-> expires_at, remote |-> remote,
                               deleted |-> "no"]]
            /\ last' = SetRecord(key, value, PyTrue, "none", remote)
    /\ UNCHANGED <<redis_client, cache_stats, now>>
    /\ UNCHANGED <<coalesce_vars, thread_vars, etag_vars>>

\* delete, line 161, mutated: the remote key is left in place
RedisKeepKey(store, rk) == store

\* delete, line 161: `self.redis_client.delete(cache_key)`
RedisDelete(store, rk) == [store EXCEPT ![rk] = Absent]

\* the tiers that hold key
HeldBy(key) ==
    IF IndexOf(memory_cache, key) # 0
    THEN IF RedisLive(MakeKey(key)) THEN "both" ELSE "memory"
    ELSE IF RedisLive(MakeKey(key)) THEN "redis" ELSE "none"

\* CacheManager.delete
Delete(key, remote_exc) ==
    LET remote == RemoteCall(remote_exc)
        exc == Escaping(RemoteFailure(remote_exc))
        redis_deleted == remote = "ok" /\ RedisLive(MakeKey(key))
        memory_deleted == IndexOf(memory_cache, key) # 0
    IN
    /\ redis_client = "client" \/ remote_exc = "none"
    /\ nops < MaxOps
    /\ nops' = nops + 1
    /\ IF exc # "none"
       THEN /\ last' = OpRecord("delete", key, None, 0, exc, remote, "none", 0)
            /\ UNCHANGED <<redis_store, memory_cache, written>>
       ELSE /\ redis_store' =
                  IF remote = "ok"
                  THEN RedisDelete(redis_store, MakeKey(key))
                  ELSE redis_store
            /\ memory_cache' = MemoryPop(memory_cache, key)
            /\ written' = [written EXCEPT ![key] =
                              [NoWrite EXCEPT !.deleted = remote]]
            /\ last' = OpRecord("delete", key,
                                PyBool(redis_deleted \/ memory_deleted), 0,
                                "none", remote, HeldBy(key), 0)
    /\ UNCHANGED <<redis_client, cache_stats, now, set_log>>
    /\ UNCHANGED <<coalesce_vars, thread_vars, etag_vars>>

\* CacheManager.invalidate_pattern
InvalidatePattern(pattern, remote_exc) ==
    LET remote == RemoteCall(remote_exc)
        exc == Escaping(RemoteFailure(remote_exc))
        cache_pattern == MakeKey(pattern)
        keys == IF remote = "ok"
                THEN {rk \in RemoteKeys :
                         RedisLive(rk) /\ GlobMatch(cache_pattern, rk)}
                ELSE {}
        prefix == RemoveStars(pattern)
        keys_to_remove == Matching(memory_cache, prefix)
        count == Cardinality(keys) + Items(keys_to_remove)
        remote_only == {rk \in keys : IndexOf(keys_to_remove, Tail(rk)) = 0}
    IN
    /\ redis_client = "client" \/ remote_exc = "none"
    /\ nops < MaxOps
    /\ nops' = nops + 1
    /\ IF exc # "none"
       THEN /\ last' = OpRecord("invalidate_pattern", pattern, None, 0, exc,
                                remote, "none", 0)
            /\ UNCHANGED <<redis_store, memory_cache, written>>
       ELSE /\ redis_store' = [rk \in RemoteKeys |->
                                  IF rk \in keys THEN Absent ELSE redis_store[rk]]
            /\ memory_cache' =
                  SelectSeq(memory_cache, LAMBDA e : ~StartsWith(e.key, prefix))
            /\ written' = [k \in StoreKeys |->
                              IF StartsWith(k, prefix)
                              THEN Unwritten(written[k]) ELSE written[k]]
            /\ last' = OpRecord("invalidate_pattern", pattern, None, count,
                                "none", remote, "none",
                                Items(keys_to_remove) + Cardinality(remote_only))
    /\ UNCHANGED <<redis_client, cache_stats, now, set_log>>
    /\ UNCHANGED <<coalesce_vars, thread_vars, etag_vars>>

\* invalidate_cache (api.py:156-161)
InvalidateCache(prefix, remote_exc) ==
    InvalidatePattern(prefix \o <<"*">>, remote_exc)

\* CacheManager.clear
Clear(remote_exc) ==
    LET remote == RemoteCall(remote_exc)
        exc == Escaping(RemoteFailure(remote_exc))
    IN
    /\ redis_client = "client" \/ remote_exc = "none"
    /\ nops < MaxOps
    /\ nops' = nops + 1
    /\ IF exc # "none"
       THEN /\ last' = OpRecord("clear", <<>>, None, 0, exc, remote, "none", 0)
            /\ UNCHANGED <<redis_store, memory_cache, written>>
       ELSE /\ redis_store' =
                  IF remote = "ok"
                  THEN [rk \in RemoteKeys |->
                           IF GlobMatch(MakeKey(<<"*">>), rk)
                           THEN Absent ELSE redis_store[rk]]
                  ELSE redis_store
            /\ memory_cache' = <<>>
            /\ written' = [k \in StoreKeys |-> Unwritten(written[k])]
            /\ last' = OpRecord("clear", <<>>, PyBool(remote = "ok"), 0, "none",
                                remote, "none", 0)
    /\ UNCHANGED <<redis_client, cache_stats, now, set_log>>
    /\ UNCHANGED <<coalesce_vars, thread_vars, etag_vars>>

\* A bulk load: MemoryCacheLimit calls set(FillerKey(i), FillerValue,
\* ttl_seconds) in a row on a fresh manager whose remote writes all fail (or
\* that has no client). None of them exceeds the limit, so none evicts.
FillLocalWith(ttl_seconds, remote_exc) ==
    /\ redis_client = "client" \/ remote_exc = "none"
    /\ RemoteCall(remote_exc) # "ok"
    /\ Escaping(remote_exc) = "none"
    /\ memory_cache = <<>>
    /\ nops = 0
    /\ nops' = nops + 1
    /\ memory_cache' = <<FillerRun(1, MemoryCacheLimit, now + ttl_seconds)>>
    /\ last' = SetRecord(FillerKey(MemoryCacheLimit), FillerValue, PyTrue,
                         "none", RemoteCall(remote_exc))
    /\ UNCHANGED <<redis_client, cache_stats, redis_store, now, written,
                   set_log>>
    /\ UNCHANGED <<coalesce_vars, thread_vars, etag_vars>>

\* the bulk load with a ttl longer than any other set() of the model gives
FillLocal(remote_exc) == FillLocalWith(FillerTTL, remote_exc)

\* the writes of log whose ttl has not elapsed at time t
Unexpired(log, t) ==
    [k \in DOMAIN log |->
        [v \in DOMAIN log[k] |-> IF log[k][v] <= t THEN 0 ELSE log[k][v]]]

\* the dict get_stats returns; the quotient hit_ratio is the pair of its
\* numerator and denominator, 0.0 the pair <<0, 1>>
StatsOf(stats) ==
    [hits |-> stats.hits, misses |-> stats.misses,
     redis_hits |-> stats.redis_hits, memory_hits |-> stats.memory_hits,
     redis_available |-> (redis_client # "none"),
     memory_cache_size |-> Len(memory_cache),
     hit_ratio |-> IF stats.hits + stats.misses > 0
                   THEN <<stats.hits, stats.hits + stats.misses>>
                   ELSE <<0, 1>>]

\* CacheManager.get_stats: works on a copy of self.cache_stats
GetStats ==
    /\ nops < MaxOps
    /\ nops' = nops + 1
    /\ last' = [OpRecord("get_stats", <<>>, None, 0, "none", "unused", "none", 0)
                   EXCEPT !.arg = StatsOf(cache_stats)]
    /\ UNCHANGED <<redis_client, memory_cache, cache_stats, redis_store, now,
                   written, set_log>>
    /\ UNCHANGED <<coalesce_vars, thread_vars, etag_vars>>

\* the clock advances by a second
Tick ==
    /\ now < MaxTime
    /\ now' = now + 1
    /\ set_log' = Unexpired(set_log, now + 1)
    /\ UNCHANGED <<redis_client, memory_cache, cache_stats, redis_store, last,
                   written, nops>>
    /\ UNCHANGED <<coalesce_vars, thread_vars, etag_vars>>

\* what the shared remote store may hold when the manager is constructed:
\* nothing, or undecodable bytes another user left under a key
InitialStores ==
    {[rk \in RemoteKeys |-> Absent],
     [rk \in RemoteKeys |->
         IF rk = MakeKey(<<"books:", "1">>)
         THEN Stored(Undecodable, MaxTime + 1) ELSE Absent]}

\* The manager right after CacheManager(): _init_redis has run.
CacheInit ==
    /\ now = 0
    /\ \E available \in BOOLEAN :
          \E ping_exc \in IF available THEN RemoteOutcomes ELSE {"none"} :
             /\ redis_client = InitRedis(available, ping_exc).client
             /\ last = OpRecord("__init__", <<>>, None, 0,
                                InitRedis(available, ping_exc).raised,
                                InitRedis(available, ping_exc).remote, "none", 0)
    /\ memory_cache = <<>>
    /\ cache_stats = [hits |-> 0, misses |-> 0, redis_hits |-> 0, memory_hits |-> 0]
    /\ redis_store \in InitialStores
    /\ redis_client = "none" => redis_store = [rk \in RemoteKeys |-> Absent]
    /\ written = [k \in StoreKeys |-> NoWrite]
    /\ set_log = [k \in StoreKeys |-> [v \in InputValues \cup HardValues |-> 0]]
    /\ nops = 0

CacheNext ==
    \/ \E k \in Keys, x \in RemoteOutcomes : Get(k, x)
    \/ \E k \in Keys, v \in JsonValues, ttl \in TTLs, x \in RemoteOutcomes :
          Set(k, v, ttl, x)
    \/ \E k \in Keys, x \in RemoteOutcomes : Delete(k, x)
    \/ \E p \in Patterns, x \in RemoteOutcomes : InvalidatePattern(p, x)
    \/ \E p \in Prefixes, x \in RemoteOutcomes : InvalidateCache(p, x)
    \/ \E x \in RemoteOutcomes : Clear(x)
    \/ \E x \in RemoteOutcomes : FillLocal(x)
    \/ Tick

CoalesceInit ==
    /\ pc = [c \in Callers |-> "idle"]
    /\ isbn = [c \in Callers |-> "isbn1"]
    /\ task = [c \in Callers |-> NoTask]
    /\ created = [c \in Callers |-> FALSE]
    /\ result = [c \in Callers |-> <<"none", 0>>]
    /\ cancel_requested = [c \in Callers |-> FALSE]
    /\ settled_at_call = [c \in Callers |-> {}]
    /\ inflight_ai_tasks = [k \in Isbns |-> NoTask]
    /\ lock_owner = NoCaller
    /\ lock_waiters = <<>>
    /\ tasks = <<>>
    /\ ncancel = 0
    /\ shutdown_pc = "idle"
    /\ shutdown_tasks = {}

CoalesceNext ==
    \/ \E c \in Callers, k \in Isbns : Invoke(c, k)
    \/ \E c \in Callers : LockGranted(c)
    \/ \E t \in 1..MaxTasks, how \in {"result", "exception"} : TaskSettle(t, how)
    \/ \E c \in Callers : Resume(c)
    \/ \E c \in Callers : Cancel(c)

\* the coalescer's callers, all asking for one isbn, and the application's
\* shutdown
ShutdownNext ==
    \/ \E c \in Callers, k \in {"isbn1"} : Invoke(c, k)
    \/ \E c \in Callers : LockGranted(c)
    \/ \E t \in 1..MaxTasks, how \in {"result", "exception"} : TaskSettle(t, how)
    \/ \E c \in Callers : Resume(c)
    \/ \E c \in Callers : Cancel(c)
    \/ Shutdown
    \/ ShutdownGranted
    \/ ShutdownGathered

\* the cache store while only the coalescer runs: a manager without a client
CacheIdle ==
    /\ now = 0
    /\ redis_client = "none"
    /\ last = OpRecord("__init__", <<>>, None, 0, "none", "unused", "none", 0)
    /\ memory_cache = <<>>
    /\ cache_stats = [hits |-> 0, misses |-> 0, redis_hits |-> 0, memory_hits |-> 0]
    /\ redis_store = [rk \in RemoteKeys |-> Absent]
    /\ written = [k \in StoreKeys |-> NoWrite]
    /\ set_log = [k \in StoreKeys |-> [v \in InputValues \cup HardValues |-> 0]]
    /\ nops = 0

\* ------------------------------------------------------------------------
\* get() called on several threads at once. The remote read is one step (one
\* request to the store); `self.cache_stats[c] += 1` is a load of the item
\* and a store of the sum, and another thread may run in between; the block
\* under `with self.memory_cache_lock` up to the counters is one step, every
\* other access to memory_cache being under the same lock.
\* ------------------------------------------------------------------------
Threads == 1..NThreads

NoThread == 0

ThreadLocal(key, via, reg) == [key |-> key, via |-> via, reg |-> reg]

\* the counter the `+= 1` at position p of a get served by tier `via` bumps
CounterAt(p, via) ==
    IF p \in {"load_hits", "store_hits"} THEN "hits"
    ELSE IF p \in {"load_misses", "store_misses"} THEN "misses"
    ELSE IF via = "memory" THEN "memory_hits" ELSE "redis_hits"

\* the manager is quiet: no thread is inside get()
Quiet == \A t \in Threads : tpc[t] = "idle"

\* The main thread stores one entry before the threads start.
Preload(value, ttl_seconds, remote_exc) ==
    /\ Quiet
    /\ nops = 0
    /\ Set(<<"books:", "1">>, value, ttl_seconds, remote_exc)

\* get, lines 94-100: thread t enters get(key) and reads the remote tier.
ThreadGetRemote(t, key, remote_exc) ==
    LET r == GetRemote(key, remote_exc) IN
    /\ tpc[t] = "idle"
    /\ \A u \in 1..(t - 1) : tpc[u] # "idle"
    /\ redis_client = "client" \/ remote_exc = "none"
    /\ tlocal' = [tlocal EXCEPT ![t] =
                     ThreadLocal(key, IF r.hit THEN "redis"
                                      ELSE IF r.counted THEN "undecodable"
                                      ELSE "none", 0)]
    /\ tpc' = [tpc EXCEPT ![t] = IF r.counted THEN "load_hits" ELSE "lock"]
    /\ UNCHANGED <<cache_vars, memory_cache_lock, setter, coalesce_vars,
                   etag_vars>>

\* `with self.memory_cache_lock`, mutated: the lock is not waited for
LockIgnored == TRUE

\* `with self.memory_cache_lock` (cache_manager.py:108, 138): the thread
\* goes on when no other thread holds the lock
MemoryLockFree == memory_cache_lock = NoThread

\* get, lines 108-112: thread t takes memory_cache_lock, looks the key up
\* and compares its expiry with the clock. A fresh entry is a hit, counted
\* with the lock held; an expired one is to be deleted, the lock still held;
\* without an entry the lock is released again.
ThreadLookup(t) ==
    LET key == tlocal[t].key
        i == IndexOf(memory_cache, key)
        fresh == i # 0 /\ now < memory_cache[i].expires_at
    IN
    /\ tpc[t] = "lock"
    /\ MemoryLockFree
    /\ IF fresh
       THEN /\ memory_cache_lock' = t
            /\ tlocal' = [tlocal EXCEPT ![t].via = "memory"]
            /\ tpc' = [tpc EXCEPT ![t] = "load_hits"]
       ELSE IF i # 0
       THEN /\ memory_cache_lock' = t
            /\ tlocal' = [tlocal EXCEPT ![t].via = "miss"]
            /\ tpc' = [tpc EXCEPT ![t] = "purge"]
       ELSE /\ tlocal' = [tlocal EXCEPT ![t].via = "miss"]
            /\ tpc' = [tpc EXCEPT ![t] = "load_misses"]
            /\ UNCHANGED memory_cache_lock
    /\ UNCHANGED <<redis_client, memory_cache, cache_stats, redis_store, now,
                   last, written, set_log, nops, setter, coalesce_vars,
                   etag_vars>>

\* get, lines 116-118: `del self.memory_cache[key]`, after which the block
\* ends and the lock is released.
ThreadPurge(t) ==
    /\ tpc[t] = "purge"
    /\ memory_cache' = PurgeExpired(memory_cache, tlocal[t].key)
    /\ memory_cache_lock' = IF memory_cache_lock = t THEN NoThread
                            ELSE memory_cache_lock
    /\ tpc' = [tpc EXCEPT ![t] = "load_misses"]
    /\ UNCHANGED <<redis_client, cache_stats, redis_store, now, last, written,
                   set_log, nops, tlocal, setter, coalesce_vars, etag_vars>>

SetterIdle == [pc |-> "idle", key |-> <<>>, value |-> None, ttl_seconds |-> 0]

\* set, lines 125-136, on a thread of its own: the value is serialized and
\* written to the remote tier.
SetterRemote(key, value, ttl_seconds, remote_exc) ==
    LET ser == SerializeValue(value) IN
    /\ setter.pc = "idle"
    /\ nops > 0
    /\ redis_client = "client" \/ remote_exc = "none"
    /\ ser.exc = "none"
    /\ redis_store' =
          IF RemoteCall(remote_exc) = "ok"
          THEN [redis_store EXCEPT
                   ![MakeKey(key)] = Stored(ser.data, now + ttl_seconds)]
          ELSE redis_store
    /\ setter' = [pc |-> "store", key |-> key, value |-> value,
                  ttl_seconds |-> ttl_seconds]
    /\ UNCHANGED <<redis_client, memory_cache, cache_stats, now, last, written,
                   set_log, nops, tpc, tlocal, memory_cache_lock,
                   coalesce_vars, etag_vars>>

\* set, lines 138-152: under memory_cache_lock the entry is stored with its
\* expiry and the size is checked.
SetterStore ==
    LET expires_at == now + setter.ttl_seconds IN
    /\ setter.pc = "store"
    /\ MemoryLockFree
    /\ memory_cache' =
          Evict(MemoryStore(memory_cache, setter.key, setter.value, expires_at))
    /\ set_log' = [set_log EXCEPT ![setter.key][setter.value] = Max(@, expires_at)]
    /\ setter' = [setter EXCEPT !.pc = "done"]
    /\ UNCHANGED <<redis_client, cache_stats, redis_store, now, last, written,
                   nops, tpc, tlocal, memory_cache_lock, coalesce_vars,
                   etag_vars>>

\* the first half of `self.cache_stats[c] += 1`: the item is loaded
ThreadLoad(t) ==
    /\ tpc[t] \in {"load_hits", "load_tier", "load_misses"}
    /\ tlocal' = [tlocal EXCEPT
                     ![t].reg = cache_stats[CounterAt(tpc[t], tlocal[t].via)]]
    /\ tpc' = [tpc EXCEPT ![t] =
                  CASE tpc[t] = "load_hits" -> "store_hits"
                    [] tpc[t] = "load_tier" -> "store_tier"
                    [] tpc[t] = "load_misses" -> "store_misses"]
    /\ UNCHANGED <<cache_vars, memory_cache_lock, setter, coalesce_vars,
                   etag_vars>>

\* the second half of `self.cache_stats[c] += 1`: the sum is stored. After
\* the tier counter a remote hit returns (line 103), undecodable bytes raise
\* into the except clause and the thread goes on to the local tier (104-108),
\* a local hit returns and releases the lock (115).
ThreadStore(t) ==
    /\ tpc[t] \in {"store_hits", "store_tier", "store_misses"}
    /\ cache_stats' = [cache_stats EXCEPT
                          ![CounterAt(tpc[t], tlocal[t].via)] = tlocal[t].reg + 1]
    /\ tpc' = [tpc EXCEPT ![t] =
                  IF tpc[t] = "store_hits" THEN "load_tier"
                  ELSE IF tpc[t] = "store_tier" /\ tlocal[t].via = "undecodable"
                  THEN "lock"
                  ELSE "done"]
    /\ memory_cache_lock' =
          IF tpc[t] = "store_tier" /\ tlocal[t].via = "memory"
          THEN NoThread ELSE memory_cache_lock
    /\ UNCHANGED <<redis_client, memory_cache, redis_store, now, last, written,
                   set_log, nops, tlocal, setter, coalesce_vars, etag_vars>>

ThreadInit ==
    /\ tpc = [t \in Threads |-> "idle"]
    /\ tlocal = [t \in Threads |-> ThreadLocal(<<>>, "none", 0)]
    /\ memory_cache_lock = NoThread
    /\ setter = SetterIdle

ThreadNext ==
    \/ \E v \in InputValues, ttl \in TTLs, x \in RemoteOutcomes : Preload(v, ttl, x)
    \/ \E t \in Threads, x \in RemoteOutcomes :
          ThreadGetRemote(t, <<"books:", "1">>, x)
    \/ \E t \in Threads : ThreadLookup(t)
    \/ \E t \in Threads : ThreadPurge(t)
    \/ \E t \in Threads : ThreadLoad(t)
    \/ \E t \in Threads : ThreadStore(t)
    \/ Tick

\* the threads of the purge model that call get()
Getters == {1, 2}

\* get() on threads beside a thread in set(), all for one key, after the
\* main thread stored an entry
PurgeNext ==
    \/ \E v \in InputValues, ttl \in TTLs, x \in RemoteOutcomes : Preload(v, ttl, x)
    \/ \E t \in Getters, x \in RemoteOutcomes :
          ThreadGetRemote(t, <<"books:", "1">>, x)
    \/ \E t \in Getters : ThreadLookup(t)
    \/ \E t \in Getters : ThreadPurge(t)
    \/ \E t \in Getters : ThreadLoad(t)
    \/ \E t \in Getters : ThreadStore(t)
    \/ \E v \in InputValues, ttl \in TTLs, x \in RemoteOutcomes :
          SetterRemote(<<"books:", "1">>, v, ttl, x)
    \/ SetterStore
    \/ Tick

\* ------------------------------------------------------------------------
\* _compute_etag_from_dict and the conditional GET handlers (api.py)
\*
\* A Python value is an int, a str or a dict; `v` is the text of a scalar or
\* the items of a dict in insertion order. A text (JSON, repr, digest, ETag)
\* is the sequence of its tokens.
\* ------------------------------------------------------------------------
IntV(text) == [t |-> "int", v |-> text]

\* True or False; `text` is what json.dumps writes
BoolV(text) == [t |-> "bool", v |-> text]

StrV(text) == [t |-> "str", v |-> text]

DictV(items) == [t |-> "dict", v |-> items]

Item(k, val) == [k |-> k, val |-> val]

\* the keys of the model in the order sorted() gives them where it can
\* compare them: ints among themselves, strs among themselves
KeyOrder ==
    <<IntV("1"), StrV("author"), StrV("b"), StrV("enhanced"), StrV("m"),
      StrV("n"), StrV("page_count"), StrV("title")>>

\* sequences of at most n items with distinct keys from ks and values from vs
ItemSeqs(ks, vs, n) ==
    {its \in UNION {[1..len -> {Item(k, val) : k \in ks, val \in vs}] :
                       len \in 0..n} :
        \A i, j \in DOMAIN its : i # j => its[i].k # its[j].k}

\* nested dicts: int and str keys, int values
InnerDicts ==
    {DictV(its) : its \in ItemSeqs({IntV("1"), StrV("b")},
                                   {IntV("5")}, MaxItems)}

\* payloads: str keys; `n` and `page_count` hold a number or the string of
\* its digits, `m` a nested dict
Payloads ==
    {its \in ItemSeqs({StrV("n"), StrV("page_count"), StrV("m")},
                      {IntV("5"), StrV("5")} \cup InnerDicts, MaxItems) :
        \A i \in DOMAIN its : (its[i].k = StrV("m")) <=> (its[i].val.t = "dict")}

KeysOf(items) == {items[i].k : i \in DOMAIN items}

RECURSIVE SortItems(_, _)
\* sorted(dct.items()) for keys that compare
SortItems(items, order) ==
    IF order = <<>> THEN <<>>
    ELSE SelectSeq(items, LAMBDA it : it.k = Head(order))
            \o SortItems(items, Tail(order))

RECURSIVE SortKeysFails(_)
\* json.dumps(..., sort_keys=True) raises TypeError: some dict of the value
\* has keys of different types, which sorted() cannot compare
SortKeysFails(value) ==
    /\ value.t = "dict"
    /\ \/ \E i, j \in DOMAIN value.v : value.v[i].k.t # value.v[j].k.t
       \/ \E i \in DOMAIN value.v : SortKeysFails(value.v[i].val)

RECURSIVE JsonItems(_)
RECURSIVE JsonText(_)
\* the text json.dumps(value, sort_keys=True, default=str) writes: keys
\* sorted and written as strings, a str in quotes, an int bare
JsonText(value) ==
    CASE value.t = "int" -> <<value.v>>
      [] value.t = "bool" -> <<value.v>>
      [] value.t = "str" -> <<"\"", value.v, "\"">>
      [] value.t = "dict" ->
            <<"{">> \o JsonItems(SortItems(value.v, KeyOrder)) \o <<"}">>

JsonItems(items) ==
    IF items = <<>> THEN <<>>
    ELSE <<"\"", Head(items).k.v, "\"", ":">> \o JsonText(Head(items).val)
            \o (IF Len(items) > 1 THEN <<",">> ELSE <<>>)
            \o JsonItems(Tail(items))

RECURSIVE ReprItems(_)
RECURSIVE ReprText(_)
\* repr(value): the items of a dict in insertion order
ReprText(value) ==
    CASE value.t = "int" -> <<value.v>>
      [] value.t = "bool" -> <<"repr", value.v>>
      [] value.t = "str" -> <<"'", value.v, "'">>
      [] value.t = "dict" -> <<"{">> \o ReprItems(value.v) \o <<"}">>

ReprItems(items) ==
    IF items = <<>> THEN <<>>
    ELSE ReprText(Head(items).k) \o <<":">> \o ReprText(Head(items).val)
            \o (IF Len(items) > 1 THEN <<",">> ELSE <<>>)
            \o ReprItems(Tail(items))

\* hashlib.sha256(raw).hexdigest(): different texts, different digests
Sha256(raw) == <<"sha256(">> \o raw \o <<")">>

\* _compute_etag_from_dict (api.py:168-175)
ComputeEtagFromDict(items) ==
    LET raw == IF SortKeysFails(DictV(items))
               THEN ReprText(DictV(items))
               ELSE JsonText(DictV(items))
    IN  <<"\"", "\"">> \o Sha256(raw) \o <<"\"">>

\* _normalize_enhanced_payload, lines 205-211: page_count given as a string
\* of digits becomes the int
NormalizeEnhancedPayload(items) ==
    [i \in DOMAIN items |->
        IF items[i].k = StrV("page_count") /\ items[i].val.t = "str"
        THEN Item(items[i].k, IntV(items[i].val.v))
        ELSE items[i]]

NoHeader == <<"None">>

NoEtag == <<>>

\* If-None-Match headers a client may send for the representation whose
\* ETag is e: none, e itself, e cut short, e in regular quotes, the weak
\* form of e, and the ETag of another representation
HeaderForms == {"none", "same", "cut", "quoted", "weak", "other"}

Header(form, e, other) ==
    CASE form = "none" -> NoHeader
      [] form = "same" -> e
      [] form = "cut" -> SubSeq(e, 1, Len(e) - 1)
      [] form = "quoted" -> Tail(e)
      [] form = "weak" -> <<"W/">> \o e
      [] form = "other" -> other

\* `inm == etag`, mutated: a header that is a prefix of the ETag matches too
MatchesPrefix(inm, e) ==
    /\ Len(inm) <= Len(e)
    /\ SubSeq(e, 1, Len(inm)) = inm

\* `inm == etag` (api.py:919, 1033, 1056, 1085)
Matches(inm, e) == inm = e

\* The two payloads are fingerprinted.
ComputeEtags ==
    /\ etag = [a |-> NoEtag, b |-> NoEtag]
    /\ etag' = [a |-> ComputeEtagFromDict(payload.a),
                b |-> ComputeEtagFromDict(payload.b)]
    /\ UNCHANGED <<payload, request, response, enhanced_vars>>
    /\ UNCHANGED <<coalesce_vars, cache_vars, thread_vars>>

\* A GET for the representation payload.a that carries an If-None-Match
\* header of the given form (api.py:915-920, 1029-1034): 304 without a body
\* when the header matches the ETag, else 200 with the body.
ConditionalGet(form) ==
    LET e == ComputeEtagFromDict(payload.a)
        inm == Header(form, etag.a, etag.b)
    IN
    /\ etag # [a |-> NoEtag, b |-> NoEtag]
    /\ request' = inm
    /\ response' = IF Matches(inm, e) THEN 304 ELSE 200
    /\ UNCHANGED <<payload, etag, enhanced_vars>>
    /\ UNCHANGED <<coalesce_vars, cache_vars, thread_vars>>

\* ------------------------------------------------------------------------
\* get_enhanced_book and update_book (api.py), Library.update_book
\* (library.py). Both handlers are plain `def` functions, which the
\* framework runs on worker threads; they share the Book object that
\* Library.find_book returns.
\* ------------------------------------------------------------------------
Readers == 1..NReaders

Titles == {"t1", "t2"}

Authors == {"a1", "a2"}

\* field values of an update request: a new text, or None
Unset == "None"

Record(title, author) == [title |-> title, author |-> author]

NoPayload == <<"None">>

\* book.to_dict(), the fields update_book can change
ToDict(rec) ==
    <<Item(StrV("title"), StrV(rec.title)), Item(StrV("author"), StrV(rec.author))>>

\* `_compute_etag_from_dict({"enhanced": True, **d})` (api.py:915, 943)
EnhancedEtag(d) ==
    ComputeEtagFromDict(<<Item(StrV("enhanced"), BoolV("true"))>> \o d)

\* a reader that has not started
ReaderIdle ==
    [pc |-> "idle", dict |-> Record(Unset, Unset), etag |-> NoEtag,
     inm |-> NoHeader, body |-> NoPayload, status |-> 0, cached |-> FALSE,
     current |-> NoEtag]

UpdaterIdle == [pc |-> "idle", title |-> Unset, author |-> Unset, n |-> 0]

\* `use_cached = (cached_etag == etag)` (api.py:944)
SameState(cached_etag, e) == cached_etag = e

\* get_enhanced_book, lines 909-914: find_book, and to_dict() as far as
\* reading book.title.
ReadTitle(r) ==
    /\ reader[r].pc = "idle"
    /\ \A q \in 1..(r - 1) : reader[q].pc # "idle"
    /\ reader' = [reader EXCEPT ![r].pc = "to_dict",
                                ![r].dict = Record(book.title, Unset)]
    /\ UNCHANGED <<book, enhanced_cache, updater>>
    /\ UNCHANGED <<payload, etag, request, response>>
    /\ UNCHANGED <<coalesce_vars, cache_vars, thread_vars>>

\* lines 914-920: to_dict() reads book.author; the ETag is computed; a
\* request whose If-None-Match equals it is answered 304. `revalidate` says
\* that the client sent the ETag of the record as the handler read it.
ComputeEtag(r, revalidate) ==
    LET d == Record(reader[r].dict.title, book.author)
        e == EnhancedEtag(ToDict(d))
        inm == IF revalidate THEN e ELSE NoHeader
    IN
    /\ reader[r].pc = "to_dict"
    /\ reader' = [reader EXCEPT
                     ![r].dict = d,
                     ![r].etag = e,
                     ![r].inm = inm,
                     ![r].pc = IF Matches(inm, e) THEN "done" ELSE "cache_get",
                     ![r].status = IF Matches(inm, e) THEN 304 ELSE 0,
                     ![r].current = IF Matches(inm, e)
                                    THEN EnhancedEtag(ToDict(book)) ELSE NoEtag]
    /\ UNCHANGED <<book, enhanced_cache, updater>>
    /\ UNCHANGED <<payload, etag, request, response>>
    /\ UNCHANGED <<coalesce_vars, cache_vars, thread_vars>>

\* lines 923-948: the cached payload is looked up, normalized and
\* fingerprinted; it becomes the body when its ETag equals the request's.
CacheLookup(r) ==
    LET cached_payload == NormalizeEnhancedPayload(enhanced_cache)
        use_cached ==
            /\ enhanced_cache # NoPayload
            /\ SameState(EnhancedEtag(cached_payload), reader[r].etag)
    IN
    /\ reader[r].pc = "cache_get"
    /\ reader' = [reader EXCEPT
                     ![r].pc = IF use_cached THEN "respond" ELSE "fresh",
                     ![r].cached = use_cached,
                     ![r].body = IF use_cached THEN cached_payload ELSE NoPayload]
    /\ UNCHANGED <<book, enhanced_cache, updater>>
    /\ UNCHANGED <<payload, etag, request, response>>
    /\ UNCHANGED <<coalesce_vars, cache_vars, thread_vars>>

\* line 951: the second to_dict(), as far as reading book.title.
FreshTitle(r) ==
    /\ reader[r].pc = "fresh"
    /\ reader' = [reader EXCEPT ![r].pc = "fresh_to_dict",
                                ![r].dict = Record(book.title, Unset)]
    /\ UNCHANGED <<book, enhanced_cache, updater>>
    /\ UNCHANGED <<payload, etag, request, response>>
    /\ UNCHANGED <<coalesce_vars, cache_vars, thread_vars>>

\* lines 951-953: to_dict() reads book.author; the fresh payload is
\* normalized and becomes the body.
FreshBody(r) ==
    LET d == Record(reader[r].dict.title, book.author) IN
    /\ reader[r].pc = "fresh_to_dict"
    /\ reader' = [reader EXCEPT
                     ![r].pc = "cache_store",
                     ![r].dict = d,
                     ![r].body = NormalizeEnhancedPayload(ToDict(d))]
    /\ UNCHANGED <<book, enhanced_cache, updater>>
    /\ UNCHANGED <<payload, etag, request, response>>
    /\ UNCHANGED <<coalesce_vars, cache_vars, thread_vars>>

\* line 954: cache_response(cache_key, fresh_payload, ttl_seconds=300)
CacheStore(r) ==
    /\ reader[r].pc = "cache_store"
    /\ enhanced_cache' = reader[r].body
    /\ reader' = [reader EXCEPT ![r].pc = "respond"]
    /\ UNCHANGED <<book, updater>>
    /\ UNCHANGED <<payload, etag, request, response>>
    /\ UNCHANGED <<coalesce_vars, cache_vars, thread_vars>>

\* lines 957-959: the handler returns the body with the ETag header.
\* `current` records the ETag of the book as it is at that moment.
Respond(r) ==
    /\ reader[r].pc = "respond"
    /\ reader' = [reader EXCEPT ![r].pc = "done",
                                ![r].status = 200,
                                ![r].current = EnhancedEtag(ToDict(book))]
    /\ UNCHANGED <<book, enhanced_cache, updater>>
    /\ UNCHANGED <<payload, etag, request, response>>
    /\ UNCHANGED <<coalesce_vars, cache_vars, thread_vars>>

\* update_book, api.py:885-887 and library.py:133-149: the request names a
\* title, an author or both; the fields left out keep the book's value; the
\* row is updated.
UpdateRow(title, author) ==
    /\ updater.pc = "idle"
    /\ updater.n < MaxUpdates
    /\ title # Unset \/ author # Unset
    /\ updater' = [pc |-> "set_title",
                   title |-> IF title # Unset THEN title ELSE book.title,
                   author |-> IF author # Unset THEN author ELSE book.author,
                   n |-> updater.n + 1]
    /\ UNCHANGED <<book, enhanced_cache, reader>>
    /\ UNCHANGED <<payload, etag, request, response>>
    /\ UNCHANGED <<coalesce_vars, cache_vars, thread_vars>>

\* library.py:151: book.title = new_title
SetTitle ==
    /\ updater.pc = "set_title"
    /\ book' = [book EXCEPT !.title = updater.title]
    /\ updater' = [updater EXCEPT !.pc = "set_author"]
    /\ UNCHANGED <<enhanced_cache, reader>>
    /\ UNCHANGED <<payload, etag, request, response>>
    /\ UNCHANGED <<coalesce_vars, cache_vars, thread_vars>>

\* library.py:152: book.author = new_author
SetAuthor ==
    /\ updater.pc = "set_author"
    /\ book' = [book EXCEPT !.author = updater.author]
    /\ updater' = [updater EXCEPT !.pc = "invalidate"]
    /\ UNCHANGED <<enhanced_cache, reader>>
    /\ UNCHANGED <<payload, etag, request, response>>
    /\ UNCHANGED <<coalesce_vars, cache_vars, thread_vars>>

\* api.py:891-893: invalidate_cache(f"enhanced:{isbn}") and the return. The
\* entry goes, or stays in the remote tier when the remote store does not
\* answer (invalidate_pattern swallows the fault).
Invalidate(remote_exc) ==
    /\ updater.pc = "invalidate"
    /\ enhanced_cache' = IF remote_exc = "none" THEN NoPayload ELSE enhanced_cache
    /\ updater' = [updater EXCEPT !.pc = "idle"]
    /\ UNCHANGED <<book, reader>>
    /\ UNCHANGED <<payload, etag, request, response>>
    /\ UNCHANGED <<coalesce_vars, cache_vars, thread_vars>>

\* no handler of the book runs
EnhancedIdle ==
    /\ book = Record("t1", "a1")
    /\ enhanced_cache = NoPayload
    /\ reader = [r \in Readers |-> ReaderIdle]
    /\ updater = UpdaterIdle

\* a book, and a cache that is empty or holds the payload of some earlier
\* state of the book
EnhancedInit ==
    /\ book = Record("t1", "a1")
    /\ enhanced_cache \in {NoPayload} \cup
          {NormalizeEnhancedPayload(ToDict(Record(t, a))) :
              t \in Titles, a \in Authors}
    /\ reader = [r \in Readers |-> ReaderIdle]
    /\ updater = UpdaterIdle

EnhancedNext ==
    \/ \E r \in Readers : ReadTitle(r)
    \/ \E r \in Readers, revalidate \in BOOLEAN : ComputeEtag(r, revalidate)
    \/ \E r \in Readers : CacheLookup(r)
    \/ \E r \in Readers : FreshTitle(r)
    \/ \E r \in Readers : FreshBody(r)
    \/ \E r \in Readers : CacheStore(r)
    \/ \E r \in Readers : Respond(r)
    \/ \E title \in Titles \cup {Unset}, author \in Authors \cup {Unset} :
          UpdateRow(title, author)
    \/ SetTitle
    \/ SetAuthor
    \/ \E x \in RemoteOutcomes : Invalidate(x)

\* the fingerprint variables before any payload is given
EtagAtRest ==
    /\ payload = [a |-> <<>>, b |-> <<>>]
    /\ etag = [a |-> NoEtag, b |-> NoEtag]
    /\ request = NoHeader
    /\ response = 0

\* two payloads with the same top-level keys; no request yet
EtagInit ==
    /\ payload \in {[a |-> x, b |-> y] : x \in Payloads, y \in Payloads}
    /\ KeysOf(payload.a) = KeysOf(payload.b)
    /\ etag = [a |-> NoEtag, b |-> NoEtag]
    /\ request = NoHeader
    /\ response = 0
    /\ EnhancedIdle

\* the fingerprint variables while another part of the program runs
EtagIdle == EtagAtRest /\ EnhancedIdle

EtagNext ==
    \/ ComputeEtags
    \/ \E form \in HeaderForms : ConditionalGet(form)

\* set() and get() of one key with values of every encoding
EncodeNext ==
    \/ \E v \in InputValues \cup HardValues, ttl \in TTLs, x \in RemoteOutcomes :
          Set(<<"books:", "1">>, v, ttl, x)
    \/ \E x \in RemoteOutcomes : Get(<<"books:", "1">>, x)
    \/ Tick

\* every operation of the manager, get_stats included, storing one value
StatsNext ==
    \/ \E k \in Keys, x \in RemoteOutcomes : Get(k, x)
    \/ \E k \in Keys, ttl \in TTLs, x \in RemoteOutcomes :
          Set(k, Value("dict", "a"), ttl, x)
    \/ \E k \in Keys, x \in RemoteOutcomes : Delete(k, x)
    \/ \E p \in Patterns, x \in RemoteOutcomes : InvalidatePattern(p, x)
    \/ \E p \in Prefixes, x \in RemoteOutcomes : InvalidateCache(p, x)
    \/ \E x \in RemoteOutcomes : Clear(x)
    \/ GetStats
    \/ Tick

\* the wrapper is between its get(), which found nothing, and its set()
Pending ==
    /\ last.op = "get"
    /\ last.key \in WrapperKeys
    /\ last.ret = None
    /\ last.raised = "none"

\* wrapper, lines 238-250: the key is built and looked up; a result that is
\* not None is returned.
WrapperLookup(key_prefix, args_hash, remote_exc) ==
    /\ ~Pending
    /\ Get(CacheKey(key_prefix, args_hash), remote_exc)

\* wrapper, lines 252-255: the function runs and its result is stored.
WrapperStore(value, ttl_seconds, remote_exc) ==
    /\ Pending
    /\ Set(last.key, value, ttl_seconds, remote_exc)

\* wrapper.clear_cache() (cache_manager.py:258)
ClearCache(key_prefix, remote_exc) ==
    /\ ~Pending
    /\ InvalidatePattern(ClearPattern(key_prefix), remote_exc)

\* calls of a function wrapped by cached() and of its clear_cache()
WrapperNext ==
    \/ \E p \in WrapperPrefixes, h \in ArgHashes, x \in RemoteOutcomes :
          WrapperLookup(p, h, x)
    \/ \E v \in InputValues, ttl \in TTLs, x \in RemoteOutcomes :
          WrapperStore(v, ttl, x)
    \/ \E p \in WrapperPrefixes, x \in RemoteOutcomes : ClearCache(p, x)
    \/ Tick

\* set() on a local tier loaded to its limit with items of a short or a
\* long ttl
EvictNext ==
    \/ \E ttl \in TTLs \cup {FillerTTL}, x \in RemoteOutcomes :
          FillLocalWith(ttl, x)
    \/ \E k \in Keys, v \in InputValues, ttl \in TTLs, x \in RemoteOutcomes :
          Set(k, v, ttl, x)
    \/ Tick

\* a book and its cache entry, beside a coalescer and a cache store at rest
EnhancedStart ==
    EnhancedInit /\ EtagAtRest /\ CoalesceInit /\ CacheIdle /\ ThreadInit

\* the coalescer at start-up, beside a cache store nobody uses
CoalesceStart == CoalesceInit /\ CacheIdle /\ ThreadInit /\ EtagIdle

\* the cache store after construction, beside a coalescer nobody calls
CacheStart == CacheInit /\ CoalesceInit /\ ThreadInit /\ EtagIdle

\* two payloads to fingerprint, beside a coalescer and a cache store at rest
EtagStart == EtagInit /\ CoalesceInit /\ CacheIdle /\ ThreadInit

SpecCoalesce == CoalesceStart /\ [][CoalesceNext]_vars

SpecShutdown == CoalesceStart /\ [][ShutdownNext]_vars

\* a task on which cancel() was called finishes with CancelledError
CancelledSettle(t) ==
    /\ t \in TaskIds
    /\ tasks[t].must_cancel
    /\ TaskSettle(t, "result")

\* The event loop runs every coroutine that is ready: a caller whose lock
\* request can be granted or whose awaited task is done, the lifespan, a
\* cancelled task. A computation need not ever finish on its own, and no
\* caller need ever arrive or be cancelled.
LoopFairness ==
    /\ \A c \in Callers : WF_vars(LockGranted(c)) /\ WF_vars(Resume(c))
    /\ \A t \in 1..MaxTasks : WF_vars(CancelledSettle(t))
    /\ WF_vars(ShutdownGranted)
    /\ WF_vars(ShutdownGathered)

SpecShutdownLive == CoalesceStart /\ [][ShutdownNext]_vars /\ LoopFairness

SpecCache == CacheStart /\ [][CacheNext]_vars

SpecEncode == CacheStart /\ [][EncodeNext]_vars

SpecEvict == CacheStart /\ [][EvictNext]_vars

SpecWrapper == CacheStart /\ [][WrapperNext]_vars

SpecStats == CacheStart /\ [][StatsNext]_vars

SpecEnhanced == EnhancedStart /\ [][EnhancedNext]_vars

SpecThreads == CacheStart /\ [][ThreadNext]_vars

SpecPurge == CacheStart /\ [][PurgeNext]_vars

SpecEtag == EtagStart /\ [][EtagNext]_vars

\* ------------------------------------------------------------------------
\* Claims about the coalescer
\* ------------------------------------------------------------------------
Awaiting(c) == pc[c] \in {"await_in_lock", "await_task"}

\* c entered the coalescer while no computation for its isbn had settled yet
Concurrent(c) ==
    /\ pc[c] # "idle"
    /\ \A t \in settled_at_call[c] : tasks[t].isbn # isbn[c]

\* C1: callers that invoke the coalescer with the same isbn while the first
\* computation for it has not settled cause exactly one invocation of the
\* factory and all return the same result (no caller being cancelled).
C1_FactoryOnceSameResult ==
    ncancel = 0 =>
        \A k \in Isbns :
            (\A c \in Callers : (pc[c] # "idle" /\ isbn[c] = k) => Concurrent(c))
            => /\ FactoryCalls(k) <= 1
               /\ \A c1, c2 \in Callers :
                     (pc[c1] = "done" /\ pc[c2] = "done"
                        /\ isbn[c1] = k /\ isbn[c2] = k)
                     => result[c1] = result[c2]

C3_SameErrorNoPoisoning ==
    \A c \in Callers :
        /\ (pc[c] \in {"done", "acquire_finally"} /\ task[c] # NoTask
               /\ ~cancel_requested[c]
               /\ tasks[task[c]].state = "exception")
           => result[c] = <<"exception", task[c]>>
        /\ task[c] # NoTask => task[c] \notin settled_at_call[c]

\* C3 witness: a computation for an isbn raised, two callers got that
\* exception, and a later caller for the same isbn started a fresh task.
C3_Witness ==
    \E c1, c2, c3 \in Callers :
        /\ c1 # c2
        /\ task[c1] # NoTask /\ task[c2] = task[c1]
        /\ result[c1] = <<"exception", task[c1]>>
        /\ result[c2] = <<"exception", task[c1]>>
        /\ isbn[c3] = isbn[c1]
        /\ task[c1] \in settled_at_call[c3]
        /\ created[c3]
        /\ task[c3] > task[c1]

\* C4: cancelling one caller while another caller awaits the same task does
\* not cancel that task: no step requests cancellation of a task that a
\* caller other than the cancelled one is awaiting.
C4_CancelSparesSharedTask ==
    [][\A c \in Callers :
          (Awaiting(c) /\ ~cancel_requested[c] /\ cancel_requested'[c]
             /\ ~TaskDone(task[c])
             /\ (\E d \in Callers \ {c} : Awaiting(d) /\ task[d] = task[c]))
          => ~tasks'[task[c]].must_cancel]_vars

\* ------------------------------------------------------------------------
\* Claims about the cache store
\* ------------------------------------------------------------------------
\* key is in the local tier
InMemory(key) == IndexOf(memory_cache, key) # 0

\* the last operation was get(k), and the last set(k, v, ttl) has not been
\* followed by a delete, an invalidation covering k or a clear
GetAfterSet == last.op = "get" /\ written[last.key].set

\* C5: get(k) after set(k, v, ttl), with no operation on k in between and
\* before ttl has elapsed, returns v, whatever the local tier held and
\* whether the remote tier answers, fails or is absent.
C5_GetAfterSetReturnsValue ==
    (GetAfterSet /\ last.time < written[last.key].expires_at)
    => last.ret = written[last.key].value

\* C6 as stated: once the ttl of set(k, v, ttl) has elapsed, get(k) returns
\* None and leaves no entry for k in the local tier.
C6_ExpiredGetMissesAndPurges ==
    (GetAfterSet /\ last.time >= written[last.key].expires_at)
    => /\ last.ret = None
       /\ ~InMemory(last.key)

\* C6 amended: once the ttl of set(k, v, ttl) has elapsed, a get(k) that the
\* remote tier does not serve returns None and leaves no entry for k in the
\* local tier; and the remote tier serves such a get only when the remote
\* write of that set failed.
C6_ExpiredGetMissesUnlessRemoteServes ==
    (GetAfterSet /\ last.time >= written[last.key].expires_at)
    => /\ last.source # "redis" => (last.ret = None /\ ~InMemory(last.key))
       /\ written[last.key].remote # "failed" => last.source # "redis"

\* C6 witness: a get found the entry of an earlier set expired, reported a
\* miss and the key is gone from the local tier.
C6_Witness ==
    /\ GetAfterSet
    /\ last.time >= written[last.key].expires_at
    /\ last.source = "miss"
    /\ ~InMemory(last.key)
    /\ cache_stats.misses = 1
    /\ nops = 2

\* C7: when the remote call of set(k, v, ttl) failed and that of a later
\* get(k) within ttl fails too, the get returns v from the local tier.
C7_LocalFallbackReturnsValue ==
    (GetAfterSet /\ last.remote = "failed"
       /\ written[last.key].remote = "failed"
       /\ last.time < written[last.key].expires_at)
    => last.ret = written[last.key].value

\* C8: no operation, the constructor included, raises: a failing remote
\* call or undecodable bytes leave a get with what the local tier holds (its
\* unexpired entry, or None), a set with True.
C8_RemoteFaultsSwallowed ==
    /\ last.raised = "none"
    /\ (last.op = "get" /\ last.remote \in {"failed", "undecodable"})
       => /\ last.source \in {"memory", "miss"}
          /\ last.source = "memory"
             => /\ InMemory(last.key)
                /\ memory_cache[IndexOf(memory_cache, last.key)].value = last.ret
                /\ last.time < memory_cache[IndexOf(memory_cache, last.key)].expires_at
          /\ last.source = "miss" => (last.ret = None /\ ~InMemory(last.key))
    /\ (last.op = "set" /\ last.remote = "failed") => last.ret = PyTrue
    /\ (last.op = "__init__" /\ last.remote = "failed") => redis_client = "none"

\* C8 witness: a get read undecodable bytes from the remote tier and was
\* served by the local tier.
C8_Witness ==
    /\ last.op = "get"
    /\ last.remote = "undecodable"
    /\ last.source = "memory"
    /\ last.ret \in InputValues

\* C9: invalidate_pattern returns the number of keys it removed, a key held
\* by both tiers counting once.
C9_CountsRemovedKeys ==
    (last.op = "invalidate_pattern" /\ last.raised = "none")
    => last.count = last.removed

\* C10: after invalidate_pattern(p) with the remote tier answering, no key
\* that starts with the prefix p (without its `*`) is left in either tier.
C10_PrefixRemovedFromBothTiers ==
    (last.op = "invalidate_pattern" /\ last.remote = "ok")
    => \A k \in Keys :
          StartsWith(k, RemoveStars(last.key))
          => (~InMemory(k) /\ ~RedisLive(MakeKey(k)))

\* C11: whenever no operation is inside its memory_cache_lock section, the
\* local tier holds at most 1000 items.
C11_LocalTierBounded == Items(memory_cache) <= MemoryCacheLimit

\* C11 witness: a set() pushed the local tier over the limit and evicted.
C11_Witness ==
    /\ last.op = "set"
    /\ last.key \in Keys
    /\ Items(memory_cache) = MemoryCacheLimit + 1 - EvictCount

\* the last delete(k) has not been followed by a set(k)
Deleted(k) == written[k].deleted # "no"

\* C12 as stated: after delete(k), until the next set(k), k is in neither
\* tier and get(k) returns None; delete(k) returns True exactly when a tier
\* held k when it was called.
C12_DeleteRemovesFromBothTiers ==
    /\ \A k \in Keys : Deleted(k) => HeldBy(k) = "none"
    /\ (last.op = "get" /\ Deleted(last.key)) => last.ret = None
    /\ last.op = "delete" => (last.ret = PyTrue <=> last.source # "none")

\* C12 amended: the same when the remote call of delete(k) did not fail (it
\* succeeded, or the manager has no client); when it failed, k is gone from
\* the local tier only and delete(k) returns True exactly when the local
\* tier held k.
C12_DeleteRemovesWhereReachable ==
    /\ \A k \in Keys :
          /\ Deleted(k) => ~InMemory(k)
          /\ written[k].deleted \in {"ok", "unused"} => HeldBy(k) = "none"
    /\ (last.op = "get" /\ written[last.key].deleted \in {"ok", "unused"})
       => last.ret = None
    /\ (last.op = "get" /\ Deleted(last.key)) => last.source \in {"redis", "miss"}
    /\ (last.op = "delete" /\ last.remote # "failed")
       => (last.ret = PyTrue <=> last.source # "none")
    /\ (last.op = "delete" /\ last.remote = "failed")
       => (last.ret = PyTrue <=> last.source \in {"memory", "both"})

\* C12 witness: delete(k) found k in both tiers, removed it from both and
\* returned True.
C12_Witness ==
    /\ last.op = "delete"
    /\ last.remote = "ok"
    /\ last.source = "both"
    /\ last.ret = PyTrue
    /\ HeldBy(last.key) = "none"

\* a set() step
SetStep == last'.op = "set" /\ nops' = nops + 1

\* C13: set(k, v, ttl) raises exactly when neither json.dumps nor
\* pickle.dumps takes v; a value json.dumps rejects and pickle takes reaches
\* the remote tier pickled (and the local tier as it is); a set() that raises
\* leaves both tiers as they were.
C13_SetFailsOnlyWhenUnencodable ==
    /\ [](last.op = "set" =>
             /\ last.raised # "none"
                <=> (JsonDumps(last.arg).exc # "none"
                     /\ PickleDumps(last.arg).exc # "none")
             /\ (last.raised = "none" /\ JsonDumps(last.arg).exc # "none"
                   /\ last.key \in Keys)
                => /\ last.remote = "ok"
                      => redis_store[MakeKey(last.key)].data
                            = [tag |-> "p", body |-> last.arg]
                   /\ InMemory(last.key)
                      => memory_cache[IndexOf(memory_cache, last.key)].value
                            = last.arg)
    /\ [][(SetStep /\ last'.raised # "none")
             => (memory_cache' = memory_cache /\ redis_store' = redis_store)]_vars

\* C13 witness: a set() of a value neither encoding takes raised while an
\* earlier set() of the key was in both tiers.
C13_Witness ==
    /\ last.op = "set"
    /\ last.raised = "PicklingError"
    /\ HeldBy(last.key) = "both"
    /\ written[last.key].set

\* C14: a value get(k) returns is one that a set(k, v, ttl) wrote whose ttl
\* has not elapsed at the time of the get.
C14_GetReturnsUnexpiredWrite ==
    (last.op = "get" /\ last.ret # None /\ last.time = now)
    => /\ last.ret \in DOMAIN set_log[last.key]
       /\ now < set_log[last.key][last.ret]

\* C15: no step lowers a counter of cache_stats, get() running on several
\* threads at once included.
C15_CountersNeverDecrease ==
    [][\A c \in DOMAIN cache_stats : cache_stats'[c] >= cache_stats[c]]_vars

\* ------------------------------------------------------------------------
\* Claims about fingerprints and conditional requests
\* ------------------------------------------------------------------------
Fingerprinted == etag # [a |-> NoEtag, b |-> NoEtag]

RECURSIVE SameValue(_, _)
\* x and y are equal as Python values: dicts with the same key/value pairs
\* in any order, at every level
SameValue(x, y) ==
    /\ x.t = y.t
    /\ IF x.t = "dict"
       THEN /\ Len(x.v) = Len(y.v)
            /\ \A i \in DOMAIN x.v : \E j \in DOMAIN y.v :
                  /\ x.v[i].k = y.v[j].k
                  /\ SameValue(x.v[i].val, y.v[j].val)
       ELSE x.v = y.v

\* x and y list the same keys in the same order and differ at most in that
\* a number in one is the string of the same digits in the other
NumericTwins(x, y) ==
    /\ Len(x) = Len(y)
    /\ \A i \in DOMAIN x :
          /\ x[i].k = y[i].k
          /\ \/ x[i].val = y[i].val
             \/ /\ {x[i].val.t, y[i].val.t} = {"int", "str"}
                /\ x[i].val.v = y[i].val.v

C17_EtagIgnoresNumericForm ==
    (Fingerprinted /\ NumericTwins(payload.a, payload.b))
    => \/ etag.a = etag.b
       \/ ComputeEtagFromDict(NormalizeEnhancedPayload(payload.a))
             = ComputeEtagFromDict(NormalizeEnhancedPayload(payload.b))

\* C18: a conditional GET is answered 304 exactly when its If-None-Match
\* header equals the ETag of the current representation; a shortened or
\* differently quoted ETag, a weak one, another one or none gets 200.
C18_NotModifiedIffSameToken ==
    response # 0
    => /\ response \in {200, 304}
       /\ response = 304 <=> request = ComputeEtagFromDict(payload.a)

\* C18 witness: a request carrying the exact ETag was answered 304.
C18_Witness ==
    /\ response = 304
    /\ payload.a # <<>>
    /\ request = etag.a
    /\ request # etag.b

\* ------------------------------------------------------------------------
\* C19
\* ------------------------------------------------------------------------
\* caller c runs the body of its `finally` block in this step
Deregisters(c) ==
    /\ created[c]
    /\ pc[c] \in {"await_task", "acquire_finally"}
    /\ pc'[c] = "done"
    /\ cancel_requested'[c] = cancel_requested[c]

\* C19: the initiator's deregistration removes a registry entry only when
\* that entry is the initiator's own task; an entry the shutdown has cleared
\* stays cleared and a task a later caller has registered stays registered.
C19_DeregistersOwnTaskOnly ==
    [][\A c \in Callers : Deregisters(c) =>
          \A k \in Isbns :
              \/ inflight_ai_tasks'[k] = inflight_ai_tasks[k]
              \/ /\ k = isbn[c]
                 /\ inflight_ai_tasks[k] = task[c]
                 /\ inflight_ai_tasks'[k] = NoTask]_vars

\* an initiator whose entry the shutdown cleared has deregistered while a
\* later caller's task was registered for its isbn, and that task is still
\* registered
C19_Witness ==
    \E c \in Callers :
        /\ created[c]
        /\ pc[c] = "done"
        /\ ~cancel_requested[c]
        /\ task[c] \in shutdown_tasks
        /\ inflight_ai_tasks[isbn[c]] \notin {NoTask, task[c]}

\* ------------------------------------------------------------------------
\* C20
\* ------------------------------------------------------------------------
\* C20: no caller owns inflight_ai_lock while it is suspended awaiting a
\* computation that has not settled, so that no check-and-register or
\* deregistration has to wait for a computation.
C20_LockNotHeldWhileAwaiting ==
    \A c \in Callers :
        (Awaiting(c) /\ ~TaskDone(task[c])) => lock_owner # c

\* ------------------------------------------------------------------------
\* C21
\* ------------------------------------------------------------------------
\* every call of _coalesced_generate_ai_summary(k, ...) made so far has
\* returned or raised
AllReturned(k) ==
    \A c \in Callers : (pc[c] # "idle" /\ isbn[c] = k) => pc[c] = "done"

\* every task created for k has finished
AllSettled(k) == \A t \in TaskIds : tasks[t].isbn = k => TaskDone(t)

\* C21: whenever the computation for k has settled and every caller for k
\* has returned, the registry holds no entry for k.
C21_RegistryTransient ==
    \A k \in Isbns :
        (AllSettled(k) /\ AllReturned(k)) => inflight_ai_tasks[k] = NoTask

\* ------------------------------------------------------------------------
\* C22
\* ------------------------------------------------------------------------
\* C22: once the application's shutdown has begun it completes, with the
\* registry cleared and its tasks cancelled, even when a computation never
\* finishes on its own while callers wait for it.
C22_ShutdownCompletes ==
    (shutdown_pc # "idle") ~> (shutdown_pc = "done")

\* ------------------------------------------------------------------------
\* C23
\* ------------------------------------------------------------------------
\* C23: when set(k, v, ttl) has returned, k is in the local tier with v,
\* whatever ttl is and whatever the local tier held: the eviction that set
\* runs never removes the entry it has just written.
C23_SetKeepsItsEntry ==
    (last.op = "set" /\ last.key \in Keys /\ last.raised = "none")
    => /\ InMemory(last.key)
       /\ memory_cache[IndexOf(memory_cache, last.key)].value = last.arg

\* ------------------------------------------------------------------------
\* C24
\* ------------------------------------------------------------------------
\* how many items of m expire at x
ExpiringAt(m, x) == Items(SelectSeq(m, LAMBDA e : e.expires_at = x))

\* the expiry times of the items of m
Expiries(m) == {m[i].expires_at : i \in DOMAIN m}

\* the local tier as the set() of this step stored its item, before its
\* size check
AsStored ==
    MemoryStore(memory_cache, last'.key, last'.arg, written'[last'.key].expires_at)

\* how many items expiring at x the set() of this step removed
Removed(x) == ExpiringAt(AsStored, x) - ExpiringAt(memory_cache', x)

\* C24: a set() removes items only when it has raised the local tier above
\* 1000 items; it then removes exactly 100, none of which expires later than
\* an item it keeps.
C24_EvictsHundredEarliest ==
    [][(SetStep /\ last'.key \in Keys /\ last'.raised = "none") =>
          IF Items(AsStored) > MemoryCacheLimit
          THEN /\ Items(memory_cache') = Items(AsStored) - EvictCount
               /\ \A x \in Expiries(AsStored) :
                     /\ Removed(x) >= 0
                     /\ Removed(x) > 0 =>
                           \A y \in Expiries(memory_cache') : x <= y
          ELSE memory_cache' = AsStored]_vars

\* C24 witness: a set() on a full local tier was kept and 100 of the items
\* loaded before it, which expire no later than it, were removed.
C24_Witness ==
    /\ last.op = "set"
    /\ last.key \in Keys
    /\ InMemory(last.key)
    /\ Items(memory_cache) = MemoryCacheLimit + 1 - EvictCount
    /\ \A i \in DOMAIN memory_cache :
          memory_cache[i].first = 0 \/ memory_cache[i].first = EvictCount + 1

\* ------------------------------------------------------------------------
\* C25
\* ------------------------------------------------------------------------
\* a get() step
GetStep == last'.op = "get" /\ nops' = nops + 1

\* by how much counter c grew in this step
Grew(c) == cache_stats'[c] - cache_stats[c]

\* C25: every get() increments exactly one of the remote-hit, local-hit and
\* miss counters, the one of the tier that served it, so that hits + misses
\* grows by one with every get(); a get() whose remote read cannot be
\* decoded is no exception.
C25_GetCountsOneOutcome ==
    [][GetStep =>
          /\ Grew("redis_hits") = (IF last'.source = "redis" THEN 1 ELSE 0)
          /\ Grew("memory_hits") = (IF last'.source = "memory" THEN 1 ELSE 0)
          /\ Grew("misses") = (IF last'.ret = None THEN 1 ELSE 0)
          /\ Grew("hits") + Grew("misses") = 1]_vars

\* ------------------------------------------------------------------------
\* C26
\* ------------------------------------------------------------------------
\* C26: a 200 answer of get_enhanced_book carries a body taken from the
\* cache only when the cached payload has the ETag of the book as the
\* handler read it, and whenever the ETag it carries is that of the book as
\* it is when the handler returns, its body is that book's payload, not the
\* payload of an earlier state.
C26_BodyMatchesCurrentEtag ==
    \A r \in Readers :
        (reader[r].pc = "done" /\ reader[r].status = 200) =>
            /\ reader[r].cached => EnhancedEtag(reader[r].body) = reader[r].etag
            /\ reader[r].etag = reader[r].current
                  => EnhancedEtag(reader[r].body) = reader[r].etag

\* ------------------------------------------------------------------------
\* C27
\* ------------------------------------------------------------------------
\* C27: the entry a get() deletes is the expired one it has just looked at:
\* whatever set() on another thread does meanwhile, no get() deletes an
\* entry that has not expired.
C27_PurgeDeletesExpiredOnly ==
    [][\A t \in Threads :
          (tpc[t] = "purge" /\ tpc'[t] # "purge") =>
              LET i == IndexOf(memory_cache, tlocal[t].key) IN
              /\ i # 0
              /\ ~(now < memory_cache[i].expires_at)]_vars

\* C27 witness: a get() has found the entry expired and is about to delete
\* it while a set() of the same key waits for the lock.
C27_Witness ==
    \E t \in Threads :
        /\ tpc[t] = "purge"
        /\ memory_cache_lock = t
        /\ setter.pc = "store"
        /\ setter.key = tlocal[t].key

\* ------------------------------------------------------------------------
\* C28
\* ------------------------------------------------------------------------
\* C28: what set() wrote to the remote tier for a value decodes to that
\* value: _deserialize_value(_serialize_value(v)) = v for every v that set()
\* takes.
C28_SerializerRoundTrips ==
    \A k \in Keys :
        (written[k].set /\ written[k].remote = "ok"
            /\ redis_store[MakeKey(k)].present)
        => DeserializeValue(redis_store[MakeKey(k)].data).value = written[k].value

\* ------------------------------------------------------------------------
\* C29
\* ------------------------------------------------------------------------
\* the last operation was clear_cache() of the wrapper with this key_prefix
Cleared(key_prefix) ==
    /\ last.op = "invalidate_pattern"
    /\ last.key = ClearPattern(key_prefix)
    /\ last.raised = "none"

\* C29: after wrapper.clear_cache() no entry the wrapper stored is left in a
\* tier, for the empty key_prefix as for any other, so that the next call
\* with arguments cached before runs the function again.
C29_ClearCacheRemovesEntries ==
    \A p \in WrapperPrefixes :
        Cleared(p) => \A h \in ArgHashes : HeldBy(CacheKey(p, h)) = "none"

\* ------------------------------------------------------------------------
\* C30
\* ------------------------------------------------------------------------
\* C30: with the operations run one after another, cache_stats['hits'] is
\* the sum of redis_hits and memory_hits in every state, and no operation
\* other than get() changes a counter.
C30_HitsAreSumOfTiers ==
    /\ [](cache_stats.hits = cache_stats.redis_hits + cache_stats.memory_hits)
    /\ [][~GetStep => cache_stats' = cache_stats]_vars

\* both tiers have served a hit and an operation other than get() has run
\* since
C30_Witness ==
    /\ cache_stats.redis_hits >= 1
    /\ cache_stats.memory_hits >= 1
    /\ last.op \notin {"none", "get"}

====
